---- MODULE Spec2Model ----
(***************************************************************************)
(* Model of pdf-ocr-app.py: the __main__ preflight checks, argument        *)
(* parsing, process_pdf (rasterize, then per page save / clean_and_deskew  *)
(* / OCR / write text file), create_zip and the TemporaryDirectory scope.  *)
(* The program is one sequential process; pc is its position.              *)
(* Angles are integers in tenths of a degree (0.5 degrees is 5).           *)
(* Paths are sequences of one-character strings.                           *)
(***************************************************************************)
EXTENDS Integers, Sequences, FiniteSets, TLC

VARIABLES
    pc,                  \* position of the process in the script
    tesseract_installed, \* environment: the tesseract binary is on PATH
    poppler_installed,   \* environment: the poppler binaries are on PATH
    document,            \* environment: the PDF, as the text the engine reads on each page
    argv,                \* the command line
    args,                \* argparse namespace (pdf_path, output)
    printed,             \* set of messages written to stdout/stderr
    exit_status,         \* -1 while running, else the process exit status
    exc,                 \* exception in flight ("none" if there is none)
    temp_dir,            \* name bound by the with statement ("" before it)
    dirs,                \* directories existing in the temporary area
    files,               \* files on disk: path -> content
    images,              \* list returned by convert_from_path
    i,                   \* enumerate index of the page loop (0-based)
    gray,                \* clean_and_deskew: grayscale image (source page, 0 if unset)
    contours,            \* clean_and_deskew: a contour was found
    rect_angle,          \* clean_and_deskew: rect[2] of the largest contour
    angle,               \* clean_and_deskew: angle after adjustment
    deskewed,            \* clean_and_deskew: "gray", "rotated" or "unset"
    thresh_count,        \* adaptiveThreshold calls in the current clean_and_deskew call
    cleaned_img,         \* value returned by clean_and_deskew
    text,                \* value returned by image_to_string
    text_files,          \* list of text file paths
    zip,                 \* the file at output_zip_path
    zip_pos,             \* create_zip: index of the next file to add
    trace                \* the pipeline calls made so far, in order

vars == <<pc, tesseract_installed, poppler_installed, document, argv, args,
          printed, exit_status, exc, temp_dir, dirs, files, images, i, gray,
          contours, rect_angle, angle, deskewed, thresh_count, cleaned_img,
          text, text_files, zip, zip_pos, trace>>

\* ---------------------------------------------------------------- bounds

MaxPages == 2
MaxPathLen == 3

\* ------------------------------------------------------------ input sets

\* Texts the OCR engine can return for a page; "" is a page without text.
Texts == {"", "t"}

\* A document is the sequence of its pages, each given by the text on it.
Documents == UNION {[1..n -> Texts] : n \in 1..MaxPages}

PathChars == {"a", "/", "."}

Paths == UNION {[1..n -> PathChars] : n \in 1..MaxPathLen}

\* Values given with --output / -o.
OutputValues == {<<"o">>}

Argvs ==
    {[kind |-> k, pdf_path |-> <<>>, has_output |-> FALSE, output |-> <<>>] :
        k \in {"help", "missing"}}
    \cup {[kind |-> "run", pdf_path |-> p, has_output |-> FALSE, output |-> <<>>] :
        p \in Paths}
    \cup {[kind |-> "run", pdf_path |-> p, has_output |-> TRUE, output |-> o] :
        p \in Paths, o \in OutputValues}

\* rect[2] values of cv2.minAreaRect, in tenths of a degree.
RectAngles == {-900, -600, -451, -450, -100, -6, -5, 0, 5, 6, 300}

\* ------------------------------------------------------ program constants

SkewCutoff == -450
QuarterTurn == 900
MinSkew == 5

\* ---------------------------------------------------------------- helpers

Abs(x) == IF x < 0 THEN -x ELSE x

Max(S) == CHOOSE x \in S : \A y \in S : y <= x

\* page_num = i + 1
PageNumOffByOne(k) == k
PageNum(k) == k + 1

\* f"page_{page_num}.png", f"page_{page_num}.txt"
PngName(n) == <<"page_", n, ".png">>
TxtName(n) == <<"page_", n, ".txt">>

\* os.path.join(temp_dir, name) and os.path.basename(path)
Join(d, name) == <<d, name>>
Basename(path) == path[2]

\* convert_from_path: one image per page, in page order; an image is named
\* by the source page it shows.
Rasterize(doc) == [p \in 1..Len(doc) |-> p]

\* pytesseract.image_to_string on a cleaned image
ImageToString(doc, img) == doc[img.page]

\* str.rfind, 1-based, 0 when absent
RFind(s, ch) ==
    LET I == {k \in 1..Len(s) : s[k] = ch}
    IN  IF I = {} THEN 0 ELSE Max(I)

RECURSIVE SplitFrom(_, _)
SplitFrom(p, cur) ==
    IF p = <<>> THEN <<cur>>
    ELSE IF Head(p) = "/" THEN <<cur>> \o SplitFrom(Tail(p), <<>>)
    ELSE SplitFrom(Tail(p), Append(cur, Head(p)))

KeptPart(c) == Len(c) > 0 /\ ~(Len(c) = 1 /\ c[1] = ".")

\* pathlib: the parts of a path below its root ("" and "." parts dropped)
Parts(p) == SelectSeq(SplitFrom(p, <<>>), KeptPart)

\* Path(p).name
Name(p) ==
    LET ps == Parts(p)
    IN  IF Len(ps) = 0 THEN <<>> ELSE ps[Len(ps)]

\* Path(p).stem
Stem(p) ==
    LET name == Name(p)
        k == RFind(name, ".")
    IN  IF 1 < k /\ k < Len(name) THEN SubSeq(name, 1, k - 1) ELSE name

\* Whether a path can name a regular file: its last raw component is neither
\* empty (trailing separator) nor "." nor ".."; convert_from_path fails on
\* any other path.
NamesFile(p) ==
    LET cs == SplitFrom(p, <<>>)
        last == cs[Len(cs)]
    IN  /\ Len(last) > 0
        /\ \E k \in 1..Len(last) : last[k] # "."

OcrZip == <<"_", "o", "c", "r", ".", "z", "i", "p">>

\* args.output = f"{pdf_name}_ocr.zip"
DefaultOutput(pdf_path) == Stem(pdf_path) \o OcrZip

\* check_tesseract_installed(): get_tesseract_version raises
\* TesseractNotFoundError exactly when the binary is not found.
TesseractAlwaysFound(installed) == TRUE
check_tesseract_installed(installed) == installed

\* convert_from_path(None) always raises; whether "poppler" occurs in the
\* message depends on which call inside pdf2image fails first.
ProbeMentionsPoppler(installed) == IF installed THEN {FALSE} ELSE {TRUE, FALSE}

\* if angle < -45: angle = 90 + angle
AdjustAngleInclusive(a) == IF a <= SkewCutoff THEN QuarterTurn + a ELSE a
AdjustAngle(a) == IF a < SkewCutoff THEN QuarterTurn + a ELSE a

\* if abs(angle) > 0.5
SignificantInclusive(a) == Abs(a) >= MinSkew
Significant(a) == Abs(a) > MinSkew

\* TemporaryDirectory.__exit__: the directory and everything in it is removed
KeepTree(fs, d) == fs
RemoveTree(fs, d) ==
    LET keep == {path \in DOMAIN fs : path[1] # d}
    IN  [path \in keep |-> fs[path]]

\* exit status of the interpreter: 1 after an uncaught exception
ExitAlwaysZero(e) == 0
ExitCode(e) == IF e = "none" THEN 0 ELSE 1

\* position after page index k of n images has been handled
AfterPageStop(k, n) == "zip_open"
AfterPage(k, n) == IF k + 1 < n THEN "save" ELSE "zip_open"

NoImage == [page |-> 0, rotated |-> FALSE]
\* The file at the output path: absent, or left there by something earlier;
\* written is set once this run has created or truncated it.
NoZip == [exists |-> FALSE, entries |-> <<>>, closed |-> FALSE, written |-> FALSE]
PriorZip == [exists |-> TRUE, entries |-> <<>>, closed |-> TRUE, written |-> FALSE]
NoArgs == [pdf_path |-> <<>>, output |-> <<>>]

\* ------------------------------------------------------------------ state

Init ==
    /\ pc = "check_tesseract"
    /\ tesseract_installed \in BOOLEAN
    /\ poppler_installed \in BOOLEAN
    /\ document \in Documents
    /\ argv \in Argvs
    /\ args = NoArgs
    /\ printed = {}
    /\ exit_status = -1
    /\ exc = "none"
    /\ temp_dir = ""
    /\ dirs = {}
    /\ files = <<>>
    /\ images = <<>>
    /\ i = 0
    /\ gray = 0
    /\ contours = FALSE
    /\ rect_angle = 0
    /\ angle = 0
    /\ deskewed = "unset"
    /\ thresh_count = 0
    /\ cleaned_img = NoImage
    /\ text = ""
    /\ text_files = <<>>
    /\ zip \in {NoZip, PriorZip}
    /\ zip_pos = 0
    /\ trace = <<>>

env == <<tesseract_installed, poppler_installed, document, argv>>
cleanLocals == <<gray, contours, rect_angle, angle, deskewed, thresh_count>>
pageLocals == <<cleaned_img, text>>
tempArea == <<temp_dir, dirs, files>>
zipState == <<zip, zip_pos>>

\* sys.exit(code) outside the with block
Exit(code) ==
    /\ pc' = "exited"
    /\ exit_status' = code

\* An exception raised inside the with block: nothing catches it, so the
\* next thing that runs is TemporaryDirectory.__exit__.
Raise(e) ==
    /\ exc' = e
    /\ pc' = "tempdir_exit"

\* ------------------------------------------------------- __main__ preflight

\* lines 150-154
CheckTesseract ==
    /\ pc = "check_tesseract"
    /\ IF check_tesseract_installed(tesseract_installed)
       THEN /\ pc' = "check_poppler"
            /\ UNCHANGED <<printed, exit_status>>
       ELSE /\ printed' = printed \cup {<<"tesseract_hint", 0>>}
            /\ Exit(1)
    /\ UNCHANGED <<env, args, exc, tempArea, images, i, cleanLocals,
                   pageLocals, text_files, zipState, trace>>

\* lines 156-168
CheckPoppler ==
    /\ pc = "check_poppler"
    /\ \E mentions \in ProbeMentionsPoppler(poppler_installed) :
          IF mentions
          THEN /\ printed' = printed \cup {<<"poppler_hint", 0>>}
               /\ Exit(1)
          ELSE /\ pc' = "parse_args"
               /\ UNCHANGED <<printed, exit_status>>
    /\ UNCHANGED <<env, args, exc, tempArea, images, i, cleanLocals,
                   pageLocals, text_files, zipState, trace>>

\* lines 170-183: argparse prints help and exits 0 on -h, prints usage and
\* exits 2 when the positional argument is missing
ParseArgs ==
    /\ pc = "parse_args"
    /\ CASE argv.kind = "help" ->
              /\ printed' = printed \cup {<<"help", 0>>}
              /\ Exit(0)
              /\ UNCHANGED args
         [] argv.kind = "missing" ->
              /\ printed' = printed \cup {<<"usage", 0>>}
              /\ Exit(2)
              /\ UNCHANGED args
         [] argv.kind = "run" ->
              /\ args' = [pdf_path |-> argv.pdf_path,
                          output |-> IF argv.has_output THEN argv.output
                                     ELSE DefaultOutput(argv.pdf_path)]
              /\ pc' = "tempdir_enter"
              /\ UNCHANGED <<printed, exit_status>>
    /\ UNCHANGED <<env, exc, tempArea, images, i, cleanLocals,
                   pageLocals, text_files, zipState, trace>>

\* -------------------------------------------------------------- process_pdf

\* line 45 (enter) and line 47
EnterTempDir ==
    /\ pc = "tempdir_enter"
    /\ \/ /\ temp_dir' = "tmp"
          /\ dirs' = dirs \cup {"tmp"}
          /\ printed' = printed \cup {<<"converting", 0>>}
          /\ pc' = "convert"
          /\ UNCHANGED <<exc, exit_status>>
       \/ /\ exc' = "OSError"
          /\ printed' = printed \cup {<<"traceback", 0>>}
          /\ Exit(ExitCode("OSError"))
          /\ UNCHANGED <<temp_dir, dirs>>
    /\ UNCHANGED <<env, args, files, images, i, cleanLocals,
                   pageLocals, text_files, zipState, trace>>

\* line 48, then the loop head of line 52
Convert ==
    /\ pc = "convert"
    /\ trace' = Append(trace, <<"rasterize", 0>>)
    /\ \/ /\ poppler_installed
          /\ NamesFile(args.pdf_path)
          /\ images' = Rasterize(document)
          /\ i' = 0
          /\ pc' = IF Len(images') = 0 THEN "zip_open" ELSE "save"
          /\ UNCHANGED exc
       \/ /\ Raise("ConversionError")
          /\ UNCHANGED <<images, i>>
    /\ UNCHANGED <<env, args, printed, exit_status, tempArea, cleanLocals,
                   pageLocals, text_files, zipState>>

\* lines 53-58
SaveImage ==
    /\ pc = "save"
    /\ printed' = printed \cup {<<"processing", PageNum(i)>>}
    /\ trace' = Append(trace, <<"save", PageNum(i)>>)
    /\ \/ /\ files' = (Join(temp_dir, PngName(PageNum(i))) :> images[i + 1]) @@ files
          /\ pc' = "clean_read"
          /\ UNCHANGED exc
       \/ /\ Raise("SaveError")
          /\ UNCHANGED files
    /\ UNCHANGED <<env, args, exit_status, temp_dir, dirs, images, i,
                   cleanLocals, pageLocals, text_files, zipState>>

\* lines 61, 83-86: imread returns None for a file it cannot decode and
\* cvtColor then raises
CleanRead ==
    /\ pc = "clean_read"
    /\ trace' = Append(trace, <<"clean", PageNum(i)>>)
    /\ LET img_path == Join(temp_dir, PngName(PageNum(i)))
       IN  \/ /\ img_path \in DOMAIN files
              /\ gray' = files[img_path]
              /\ thresh_count' = 0
              /\ pc' = "clean_deskew"
              /\ UNCHANGED exc
           \/ /\ Raise("CleanError")
              /\ UNCHANGED <<gray, thresh_count>>
    /\ UNCHANGED <<env, args, printed, exit_status, tempArea, images, i,
                   contours, rect_angle, angle, deskewed, pageLocals,
                   text_files, zipState>>

\* lines 89-117
CleanDeskew ==
    /\ pc = "clean_deskew"
    /\ \E c \in BOOLEAN :
       \E a \in (IF c THEN RectAngles ELSE {0}) :
          /\ contours' = c
          /\ rect_angle' = a
          /\ angle' = IF c THEN AdjustAngle(a) ELSE 0
          /\ deskewed' = IF c /\ Significant(angle') THEN "rotated" ELSE "gray"
    /\ pc' = "clean_threshold"
    /\ UNCHANGED <<env, args, printed, exit_status, exc, tempArea, images, i,
                   gray, thresh_count, pageLocals, text_files, zipState, trace>>

\* lines 120-125 and the return to line 61
CleanThreshold ==
    /\ pc = "clean_threshold"
    /\ thresh_count' = thresh_count + 1
    /\ cleaned_img' = [page |-> gray, rotated |-> (deskewed = "rotated")]
    /\ gray' = 0
    /\ contours' = FALSE
    /\ rect_angle' = 0
    /\ angle' = 0
    /\ deskewed' = "unset"
    /\ pc' = "ocr"
    /\ UNCHANGED <<env, args, printed, exit_status, exc, tempArea, images, i,
                   text, text_files, zipState, trace>>

\* line 64
Recognize ==
    /\ pc = "ocr"
    /\ trace' = Append(trace, <<"ocr", PageNum(i)>>)
    /\ \/ /\ text' = ImageToString(document, cleaned_img)
          /\ pc' = "persist"
          /\ UNCHANGED exc
       \/ /\ Raise("RecognitionError")
          /\ UNCHANGED text
    /\ UNCHANGED <<env, args, printed, exit_status, tempArea, images, i,
                   cleanLocals, cleaned_img, text_files, zipState>>

\* lines 67-70, then the loop head of line 52
Persist ==
    /\ pc = "persist"
    /\ trace' = Append(trace, <<"persist", PageNum(i)>>)
    /\ LET text_file_path == Join(temp_dir, TxtName(PageNum(i)))
       IN  \/ /\ files' = (text_file_path :> text) @@ files
              /\ text_files' = Append(text_files, text_file_path)
              /\ pc' = AfterPage(i, Len(images))
              /\ i' = IF pc' = "save" THEN i + 1 ELSE i
              /\ UNCHANGED exc
           \/ /\ Raise("WriteError")
              /\ UNCHANGED <<files, text_files, i>>
    /\ UNCHANGED <<env, args, printed, exit_status, temp_dir, dirs, images,
                   cleanLocals, pageLocals, zipState>>

\* --------------------------------------------------------------- create_zip

\* lines 73, 132: ZipFile(path, 'w') creates or truncates the file
ZipOpen ==
    /\ pc = "zip_open"
    /\ trace' = Append(trace, <<"archive", 0>>)
    /\ \/ /\ zip' = [exists |-> TRUE, entries |-> <<>>, closed |-> FALSE, written |-> TRUE]
          /\ zip_pos' = 1
          /\ pc' = IF Len(text_files) = 0 THEN "zip_close" ELSE "zip_write"
          /\ UNCHANGED exc
       \/ /\ Raise("ArchiveWriteError")
          /\ UNCHANGED zipState
    /\ UNCHANGED <<env, args, printed, exit_status, tempArea, images, i,
                   cleanLocals, pageLocals, text_files>>

\* lines 133-134: on an error ZipFile.__exit__ closes the file, which stays
\* on disk with the entries written so far
ZipWrite ==
    /\ pc = "zip_write"
    /\ LET file_path == text_files[zip_pos]
       IN  \/ /\ file_path \in DOMAIN files
              /\ zip' = [zip EXCEPT !.entries =
                            Append(@, <<Basename(file_path), files[file_path]>>)]
              /\ zip_pos' = zip_pos + 1
              /\ pc' = IF zip_pos < Len(text_files) THEN "zip_write" ELSE "zip_close"
              /\ UNCHANGED exc
           \/ /\ \E closed \in BOOLEAN : zip' = [zip EXCEPT !.closed = closed]
              /\ Raise("ArchiveWriteError")
              /\ UNCHANGED zip_pos
    /\ UNCHANGED <<env, args, printed, exit_status, tempArea, images, i,
                   cleanLocals, pageLocals, text_files, trace>>

\* line 132 (exit): ZipFile.close writes the central directory
ZipClose ==
    /\ pc = "zip_close"
    /\ \/ /\ zip' = [zip EXCEPT !.closed = TRUE]
          /\ pc' = "tempdir_exit"
          /\ UNCHANGED exc
       \/ /\ Raise("ArchiveWriteError")
          /\ UNCHANGED zip
    /\ UNCHANGED <<env, args, printed, exit_status, tempArea, images, i,
                   cleanLocals, pageLocals, text_files, zip_pos, trace>>

\* line 45 (exit), line 75 and the end of the script
ExitTempDir ==
    /\ pc = "tempdir_exit"
    /\ files' = RemoveTree(files, temp_dir)
    /\ dirs' = dirs \ {temp_dir}
    /\ printed' = printed \cup
          {IF exc = "none" THEN <<"complete", 0>> ELSE <<"traceback", 0>>}
    /\ Exit(ExitCode(exc))
    /\ UNCHANGED <<env, args, exc, temp_dir, images, i, cleanLocals,
                   pageLocals, text_files, zipState, trace>>

Next ==
    \/ CheckTesseract
    \/ CheckPoppler
    \/ ParseArgs
    \/ EnterTempDir
    \/ Convert
    \/ SaveImage
    \/ CleanRead
    \/ CleanDeskew
    \/ CleanThreshold
    \/ Recognize
    \/ Persist
    \/ ZipOpen
    \/ ZipWrite
    \/ ZipClose
    \/ ExitTempDir

Spec == Init /\ [][Next]_vars

\* ================================================================= claims

Exited == pc = "exited"

\* The run went through process_pdf to its end without an exception.
Completed == Exited /\ exit_status = 0 /\ argv.kind = "run"

InProcessPdf ==
    pc \in {"tempdir_enter", "convert", "save", "clean_read", "clean_deskew",
            "clean_threshold", "ocr", "persist", "zip_open", "zip_write",
            "zip_close", "tempdir_exit"}

\* The archive a complete run over the document must leave.
ExpectedEntries == [k \in 1..Len(document) |-> <<<<"page_", k, ".txt">>, document[k]>>]

\* C1: a run of process_pdf that completes on an N-page document leaves an
\* archive of exactly N entries, the k-th named page_k.txt and holding the
\* text recognized from page k (the empty text included).
C1_ArchiveMatchesDocument ==
    Completed =>
        /\ zip.exists
        /\ zip.written
        /\ zip.closed
        /\ Len(zip.entries) = Len(document)
        /\ zip.entries = ExpectedEntries

C1_Witness ==
    /\ Completed
    /\ Len(document) >= 2
    /\ document[1] = "t"
    /\ document[2] = ""
    /\ zip.entries[2] = <<<<"page_", 2, ".txt">>, "">>

\* C2: a run that ends in failure leaves nothing of its own at the output
\* path: either the run completed with the whole archive, or no file written
\* by the run exists there.
C2_NoPartialArchive ==
    Exited =>
        \/ /\ exc = "none"
           /\ (zip.written => zip.closed /\ zip.entries = ExpectedEntries)
        \/ /\ exc # "none"
           /\ ~zip.written

\* C3: page_k.png and page_k.txt exist only inside the temporary directory,
\* and once the process has ended the directory and every file in it are gone.
C3_TempAreaScoped ==
    /\ \A path \in DOMAIN files : path[1] = temp_dir /\ temp_dir \in dirs
    /\ Exited => dirs = {} /\ DOMAIN files = {}

C3_Witness ==
    /\ Exited
    /\ exc = "RecognitionError"
    /\ temp_dir = "tmp"
    /\ <<"save", 2>> \in {trace[k] : k \in 1..Len(trace)}

\* C4: without the OCR engine the process ends with status 1 and the
\* installation hint, before arguments are parsed and without any pipeline
\* step or output file.
C4_MissingTesseractExitsFirst ==
    ~tesseract_installed =>
        /\ pc \in {"check_tesseract", "exited"}
        /\ args = NoArgs
        /\ trace = <<>>
        /\ temp_dir = ""
        /\ ~zip.written
        /\ Exited => exit_status = 1 /\ <<"tesseract_hint", 0>> \in printed

C4_Witness ==
    /\ ~tesseract_installed
    /\ Exited
    /\ argv.kind = "run"
    /\ poppler_installed
    /\ zip = NoZip

\* C5: with the rendering backend missing (and the OCR engine present), a
\* run on a PDF never reaches process_pdf and ends with status 1 and the
\* installation instructions.
C5_MissingPopplerExitsFirst ==
    (~poppler_installed /\ tesseract_installed /\ argv.kind = "run") =>
        /\ ~InProcessPdf
        /\ temp_dir = ""
        /\ trace = <<>>
        /\ Exited => exit_status = 1 /\ <<"poppler_hint", 0>> \in printed

\* pathlib: a path is absolute when it starts with the separator
IsAbsolute(p) == Len(p) > 0 /\ p[1] = "/"

\* The directory components of a path: its parts without the last.
DirParts(p) ==
    LET ps == Parts(p)
    IN  IF Len(ps) = 0 THEN <<>> ELSE SubSeq(ps, 1, Len(ps) - 1)

\* C6: for an input path naming a file, without --output the output path is
\* the input path with its extension replaced by _ocr.zip (same directory,
\* stem followed by _ocr.zip); with --output it is the given value.
C6_OutputPath ==
    (argv.kind = "run" /\ NamesFile(argv.pdf_path) /\ args # NoArgs) =>
        IF argv.has_output
        THEN args.output = argv.output
        ELSE /\ IsAbsolute(args.output) = IsAbsolute(argv.pdf_path)
             /\ DirParts(args.output) = DirParts(argv.pdf_path)
             /\ Name(args.output) = Stem(argv.pdf_path) \o OcrZip

RECURSIVE PageSteps(_, _)
PageSteps(k, n) ==
    IF k > n THEN <<>>
    ELSE <<<<"save", k>>, <<"clean", k>>, <<"ocr", k>>, <<"persist", k>>>>
         \o PageSteps(k + 1, n)

\* Start, Rasterize, then Clean, Recognize, Persist for pages 1..n, Archive
ExpectedTrace(n) == <<<<"rasterize", 0>>>> \o PageSteps(1, n) \o <<<<"archive", 0>>>>

IsPrefix(s, t) == Len(s) <= Len(t) /\ s = SubSeq(t, 1, Len(s))

Occurrences(s, x) == Cardinality({k \in 1..Len(s) : s[k] = x})

\* C7: the calls made are always a prefix of rasterize, then save, clean,
\* ocr, persist for page 1, then for page 2, ..., then one archive; the
\* archive step is taken once and only when every page's text file exists.
C7_LinearSequence ==
    /\ IsPrefix(trace, ExpectedTrace(Len(document)))
    /\ Occurrences(trace, <<"archive", 0>>) <= 1
    /\ Occurrences(trace, <<"archive", 0>>) = 1 =>
          /\ Len(images) = Len(document)
          /\ \A k \in 1..Len(images) : <<temp_dir, <<"page_", k, ".txt">>>> \in
                {text_files[j] : j \in 1..Len(text_files)}
    /\ Completed => trace = ExpectedTrace(Len(document))

C7_Witness ==
    /\ Completed
    /\ Len(document) >= 2
    /\ trace = ExpectedTrace(2)

AllArchived ==
    /\ Len(text_files) = Len(document)
    /\ zip.written
    /\ zip.closed
    /\ Len(zip.entries) = Len(document)

NoRepeat(s) == \A j, k \in 1..Len(s) : s[j] = s[k] => j = k

\* C8 as stated, on a host with both dependencies installed: a failure ends
\* the process with a non-zero status, and status 0 is reached only when
\* every page was processed and the archive was written.
C8_ZeroOnlyWhenArchived ==
    (Exited /\ tesseract_installed /\ poppler_installed) =>
        /\ exc # "none" => exit_status > 0
        /\ exit_status = 0 => AllArchived

\* C8: once a step has failed no step is attempted again and no later step
\* runs, the process ends with a non-zero status, and status 0 is reached
\* only after every page was processed and the archive written, or when
\* the argument parser was asked for help.
C8_FailFast ==
    /\ [](/\ NoRepeat(trace)
          /\ exc # "none" => pc \in {"tempdir_exit", "exited"}
          /\ (Exited /\ exc # "none") => exit_status > 0
          /\ (Exited /\ exit_status = 0) => (AllArchived \/ argv.kind = "help"))
    /\ [][exc # "none" => (trace' = trace /\ exc' = exc /\ zip' = zip)]_vars

C8_Witness ==
    /\ Exited
    /\ exc = "RecognitionError"
    /\ exit_status = 1
    /\ Len(document) >= 2
    /\ trace[Len(trace)] = <<"ocr", 1>>

\* C9: the adjusted angle is the rectangle angle plus 90 degrees when the
\* rectangle angle is below -45 degrees and the rectangle angle itself
\* otherwise (-45 included); -60 becomes 30, -10 stays -10 and is rotated.
C9_AngleNormalization ==
    (pc = "clean_threshold" /\ contours) =>
        /\ rect_angle < -450 => angle = rect_angle + 900
        /\ rect_angle >= -450 => angle = rect_angle
        /\ rect_angle = -600 => angle = 300
        /\ rect_angle = -100 => angle = -100 /\ deskewed = "rotated"

C9_Witness ==
    /\ pc = "clean_threshold"
    /\ contours
    /\ rect_angle = -450
    /\ angle = -450

\* C10: the grayscale image is rotated exactly when a contour was found and
\* the adjusted angle is more than 0.5 degrees in absolute value; whatever
\* the branch, adaptive thresholding then runs once, without an error, on
\* the image the branch chose.
C10_RotateIffSignificant ==
    /\ [](pc = "clean_threshold" =>
            /\ deskewed \in {"gray", "rotated"}
            /\ deskewed = "rotated" <=> (contours /\ (angle > 5 \/ angle < -5))
            /\ thresh_count = 0)
    /\ [](pc \in {"ocr", "persist"} => thresh_count = 1)
    /\ [][pc = "clean_threshold" =>
            /\ pc' = "ocr"
            /\ exc' = "none"
            /\ thresh_count' = 1
            /\ cleaned_img' = [page |-> gray, rotated |-> (deskewed = "rotated")]]_vars

C10_Witness ==
    /\ pc = "clean_threshold"
    /\ contours
    /\ angle = 5
    /\ deskewed = "gray"

====
